---- MODULE Spec2Model ----
(***************************************************************************)
(* A model of app.py, the AI cricket analyst dashboard: the two tables     *)
(* loaded at import time, the four pandas aggregations, the Groq call and  *)
(* the Gradio callbacks that combine them.                                 *)
(*                                                                         *)
(* Representation.  A table is a sequence of records (one per row, in row  *)
(* order).  Player names, match ids and seasons are positive integers      *)
(* whose order stands for the order pandas sorts the column by; NaN is the *)
(* missing value of any column.  A strike rate is kept in hundredths (the  *)
(* two decimals round(..., 2) keeps).  A string that the code inspects     *)
(* (the question, the model's reply) is a sequence of one-character        *)
(* strings.  A call's outcome is Ok(value) or Raise(exception name).       *)
(***************************************************************************)
EXTENDS Integers, Sequences, FiniteSets

VARIABLES matches, deliveries, players, sess

vars == <<matches, deliveries, players, sess>>

\* ------------------------------------------------------------------ bounds

MaxRows == 2
MaxRuns == 2
MaxPad == 11
MaxFrags == 2
NumSessions == 2

\* ------------------------------------------------------- program constants

NaN == 0
TopN == 10

\* ---------------------------------------------------------------- helpers

Ok(v) == [exc |-> "None", val |-> v]

Raise(e) == [exc |-> e, val |-> <<>>]

Range(s) == {s[i] : i \in 1..Len(s)}

RECURSIVE SumSeq(_)
SumSeq(s) == IF s = <<>> THEN 0 ELSE Head(s) + SumSeq(Tail(s))

RECURSIVE Flatten(_)
Flatten(ss) == IF ss = <<>> THEN <<>> ELSE Head(ss) \o Flatten(Tail(ss))

RECURSIVE SortedKeys(_)
SortedKeys(S) ==
    IF S = {} THEN <<>>
    ELSE LET m == CHOOSE x \in S : \A y \in S : x <= y
         IN  <<m>> \o SortedKeys(S \ {m})

Column(df, col) == [i \in 1..Len(df) |-> df[i][col]]

\* ------------------------------------------------------------- data load

MergeRow(r, m) ==
    LET hits == SelectSeq(m, LAMBDA x : x.id /= NaN /\ x.id = r.match_id)
    IN  IF hits = <<>>
        THEN << [match_id |-> r.match_id, batter |-> r.batter, bowler |-> r.bowler,
                 batsman_runs |-> r.batsman_runs, is_wicket |-> r.is_wicket,
                 season |-> NaN] >>
        ELSE [j \in 1..Len(hits) |->
                [match_id |-> r.match_id, batter |-> r.batter, bowler |-> r.bowler,
                 batsman_runs |-> r.batsman_runs, is_wicket |-> r.is_wicket,
                 season |-> hits[j].season]]

Merge(d, m) == Flatten([i \in 1..Len(d) |-> MergeRow(d[i], m)])

PlayerList(df) == SortedKeys({df[i].batter : i \in 1..Len(df)} \ {NaN})

\* ------------------------------------------------------------- analytics

GroupKeys(df, col) == SortedKeys({df[i][col] : i \in 1..Len(df)} \ {NaN})

GroupBySum(df, col, valcol) ==
    LET keys == GroupKeys(df, col)
    IN  [k \in 1..Len(keys) |->
            [key |-> keys[k],
             val |-> SumSeq(Column(SelectSeq(df, LAMBDA r : r[col] = keys[k]), valcol))]]

GroupBySize(df, col) ==
    LET keys == GroupKeys(df, col)
    IN  [k \in 1..Len(keys) |->
            [key |-> keys[k],
             val |-> Len(SelectSeq(df, LAMBDA r : r[col] = keys[k]))]]

RECURSIVE InsertDesc(_, _)
InsertDesc(t, x) ==
    IF t = <<>> THEN <<x>>
    ELSE IF Head(t).val >= x.val THEN <<Head(t)>> \o InsertDesc(Tail(t), x)
         ELSE <<x>> \o t

RECURSIVE SortDesc(_)
SortDesc(s) ==
    IF s = <<>> THEN <<>>
    ELSE InsertDesc(SortDesc(SubSeq(s, 1, Len(s) - 1)), s[Len(s)])

\* nlargest(n) with its default keep='first': descending by value, equal
\* values in the order of the groups (ascending key).
NLargest(s, n) ==
    LET sorted == SortDesc(s)
    IN  SubSeq(sorted, 1, IF Len(sorted) < n THEN Len(sorted) ELSE n)

\* The ranking as a bug would have it: the first 10 groups, not the largest.
top_run_scorers_head(df) ==
    LET groups == GroupBySum(df, "batter", "batsman_runs")
    IN  SubSeq(groups, 1, IF Len(groups) < TopN THEN Len(groups) ELSE TopN)

top_run_scorers(df) == NLargest(GroupBySum(df, "batter", "batsman_runs"), TopN)

\* The ranking as a bug would have it: every record counted, wicket or not.
top_wicket_takers_all(df) == NLargest(GroupBySize(df, "bowler"), TopN)

top_wicket_takers(df) ==
    NLargest(GroupBySize(SelectSeq(df, LAMBDA r : r.is_wicket = 1), "bowler"), TopN)

\* round(runs / balls * 100, 2), in hundredths; a tie goes to the even digit.
Round2(runs, balls) ==
    LET q   == runs * 10000
        lo  == q \div balls
        rem == q % balls
    IN  IF 2 * rem < balls THEN lo
        ELSE IF 2 * rem > balls THEN lo + 1
        ELSE IF lo % 2 = 0 THEN lo ELSE lo + 1

\* idxmax(): the first key of the largest value; of an empty series, ValueError.
IdxMax(s) ==
    IF s = <<>> THEN Raise("ValueError")
    ELSE LET i == CHOOSE i \in 1..Len(s) :
                    /\ \A j \in 1..Len(s) : s[j].val <= s[i].val
                    /\ \A j \in 1..(i - 1) : s[j].val < s[i].val
         IN  Ok(s[i].key)

\* A comparison with a missing player (None) selects no row.
player_stats(df0, player) ==
    LET df             == SelectSeq(df0, LAMBDA r : player /= NaN /\ r.batter = player)
        runs           == SumSeq(Column(df, "batsman_runs"))
        balls          == Len(df)
        sr             == IF balls /= 0 THEN Round2(runs, balls) ELSE 0
        matches_played == Cardinality({df[i].match_id : i \in 1..Len(df)} \ {NaN})
        best_season    == IdxMax(GroupBySum(df, "season", "batsman_runs"))
    IN  IF best_season.exc /= "None" THEN best_season
        ELSE Ok([runs |-> runs, sr |-> sr, matches_played |-> matches_played,
                 best_season |-> best_season.val])

\* The trend as a bug would have it: the missing season kept as a group.
player_trend_keepna(df0, player) ==
    LET df   == SelectSeq(df0, LAMBDA r : player /= NaN /\ r.batter = player)
        keys == SortedKeys({df[i].season : i \in 1..Len(df)})
    IN  [k \in 1..Len(keys) |->
            [key |-> keys[k],
             val |-> SumSeq(Column(SelectSeq(df, LAMBDA r : r.season = keys[k]),
                                   "batsman_runs"))]]

player_trend(df0, player) ==
    GroupBySum(SelectSeq(df0, LAMBDA r : player /= NaN /\ r.batter = player),
               "season", "batsman_runs")

\* ------------------------------------------------------------------- LLM

Whitespace == {" ", "\t", "\n"}

RECURSIVE LStrip(_)
LStrip(t) == IF t /= <<>> /\ Head(t) \in Whitespace THEN LStrip(Tail(t)) ELSE t

RECURSIVE RStrip(_)
RStrip(t) ==
    IF t /= <<>> /\ t[Len(t)] \in Whitespace THEN RStrip(SubSeq(t, 1, Len(t) - 1)) ELSE t

Strip(t) == RStrip(LStrip(t))

\* What the remote service does with one request: a reply whose first choice
\* holds text, an API failure (connection, authentication, rate limit), a
\* reply with no choices, or a first choice whose content is None.
ChatCompletion(outcome) ==
    IF outcome.kind = "api_error" THEN Raise("APIError")
    ELSE IF outcome.kind = "no_choices" THEN Ok([choices |-> <<>>])
    ELSE IF outcome.kind = "null_content" THEN Ok([choices |-> << [isNone |-> TRUE, content |-> <<>>] >>])
    ELSE Ok([choices |-> << [isNone |-> FALSE, content |-> outcome.content] >>])

llm_answer(facts, question, outcome) ==
    LET response == ChatCompletion(outcome)
    IN  IF response.exc /= "None" THEN response
        ELSE IF response.val.choices = <<>> THEN Raise("IndexError")
        ELSE IF response.val.choices[1].isNone THEN Raise("AttributeError")
        ELSE Ok(Strip(response.val.choices[1].content))

\* ---------------------------------------------------------------- ask_ai

UpperLetters == <<"A","B","C","D","E","F","G","H","I","J","K","L","M",
                  "N","O","P","Q","R","S","T","U","V","W","X","Y","Z">>

LowerLetters == <<"a","b","c","d","e","f","g","h","i","j","k","l","m",
                  "n","o","p","q","r","s","t","u","v","w","x","y","z">>

LowerChar(c) ==
    IF \E i \in 1..Len(UpperLetters) : UpperLetters[i] = c
    THEN LowerLetters[CHOOSE i \in 1..Len(UpperLetters) : UpperLetters[i] = c]
    ELSE c

Lower(t) == [i \in 1..Len(t) |-> LowerChar(t[i])]

Contains(t, k) ==
    \E i \in 0..(Len(t) - Len(k)) : SubSeq(t, i + 1, i + Len(k)) = k

AnyIn(keywords, t) == \E j \in 1..Len(keywords) : Contains(t, keywords[j])

RunKeywords ==
    << <<"r","u","n">>,
       <<"r","u","n","s">>,
       <<"r","u","n"," ","s","c","o","r","e","r">> >>

WicketKeywords ==
    << <<"w","i","c","k","e","t">>,
       <<"w","i","c","k","e","t","s">>,
       <<"w","i","c","k","e","t"," ","t","a","k","e","r">> >>

RunFacts(leader) ==
    [template |-> "In the IPL, {} is the highest run scorer with {} runs.",
     args |-> <<leader.key, leader.val>>]

WicketFacts(leader) ==
    [template |-> "In the IPL, {} is the leading wicket taker with {} wickets.",
     args |-> <<leader.key, leader.val>>]

FallbackFacts ==
    [template |-> "This question relates to IPL cricket but no numerical fact was matched.",
     args |-> <<>>]

NoChart == [kind |-> "None", x |-> <<>>, y |-> <<>>]

BarChart(df) == [kind |-> "bar", x |-> Column(df, "key"), y |-> Column(df, "val")]

LineChart(df) == [kind |-> "line", x |-> Column(df, "key"), y |-> Column(df, "val")]

EmptyString == <<>>

\* A finished call: what it returned or raised, the functions it called in the
\* order it called them, and the facts of every prompt it sent to the remote
\* service, each with what the service did with it.
Call(ret, log, sent) == [ret |-> ret, log |-> log, sent |-> sent]

Sent(facts, outcome) == [facts |-> facts, reply |-> outcome.kind]

\* The run-scorer branch as a bug would have it: the question echoed back.
AskRuns_echo(df0, question, outcome) ==
    LET df == top_run_scorers(df0)
    IN  IF df = <<>> THEN Call(Raise("IndexError"), <<"top_run_scorers">>, <<>>)
        ELSE LET facts == RunFacts(df[1])
                 ans   == llm_answer(facts, question, outcome)
                 log   == <<"top_run_scorers", "llm_answer">>
             IN  IF ans.exc /= "None" THEN Call(ans, log, <<Sent(facts, outcome)>>)
                 ELSE Call(Ok([ans |-> ans.val, fig |-> BarChart(df), q |-> question]),
                           log, <<Sent(facts, outcome)>>)

\* The run-scorer branch as a bug would have it: a failed call tried again.
AskRuns_retry(df0, question, outcome) ==
    LET df == top_run_scorers(df0)
    IN  IF df = <<>> THEN Call(Raise("IndexError"), <<"top_run_scorers">>, <<>>)
        ELSE LET facts == RunFacts(df[1])
                 ans   == llm_answer(facts, question, outcome)
                 log   == <<"top_run_scorers", "llm_answer">>
             IN  IF ans.exc /= "None"
                 THEN Call(ans, log \o <<"llm_answer">>,
                           <<Sent(facts, outcome), Sent(facts, outcome)>>)
                 ELSE Call(Ok([ans |-> ans.val, fig |-> BarChart(df), q |-> EmptyString]),
                           log, <<Sent(facts, outcome)>>)

AskRuns(df0, question, outcome) ==
    LET df == top_run_scorers(df0)
    IN  IF df = <<>> THEN Call(Raise("IndexError"), <<"top_run_scorers">>, <<>>)
        ELSE LET facts == RunFacts(df[1])
                 ans   == llm_answer(facts, question, outcome)
                 log   == <<"top_run_scorers", "llm_answer">>
             IN  IF ans.exc /= "None" THEN Call(ans, log, <<Sent(facts, outcome)>>)
                 ELSE Call(Ok([ans |-> ans.val, fig |-> BarChart(df), q |-> EmptyString]),
                           log, <<Sent(facts, outcome)>>)

AskWickets(df0, question, outcome) ==
    LET df == top_wicket_takers(df0)
    IN  IF df = <<>> THEN Call(Raise("IndexError"), <<"top_wicket_takers">>, <<>>)
        ELSE LET facts == WicketFacts(df[1])
                 ans   == llm_answer(facts, question, outcome)
                 log   == <<"top_wicket_takers", "llm_answer">>
             IN  IF ans.exc /= "None" THEN Call(ans, log, <<Sent(facts, outcome)>>)
                 ELSE Call(Ok([ans |-> ans.val, fig |-> BarChart(df), q |-> EmptyString]),
                           log, <<Sent(facts, outcome)>>)

AskFallback(question, outcome) ==
    LET ans == llm_answer(FallbackFacts, question, outcome)
    IN  IF ans.exc /= "None"
        THEN Call(ans, <<"llm_answer">>, <<Sent(FallbackFacts, outcome)>>)
        ELSE Call(Ok([ans |-> ans.val, fig |-> NoChart, q |-> EmptyString]),
                  <<"llm_answer">>, <<Sent(FallbackFacts, outcome)>>)

\* The dispatch as a bug would have it: the wicket keywords tried first.
ask_ai_wicket_first(df0, question, outcome) ==
    LET q == Lower(question)
    IN  IF AnyIn(WicketKeywords, q) THEN AskWickets(df0, question, outcome)
        ELSE IF AnyIn(RunKeywords, q) THEN AskRuns(df0, question, outcome)
        ELSE AskFallback(question, outcome)

ask_ai(df0, question, outcome) ==
    LET q == Lower(question)
    IN  IF AnyIn(RunKeywords, q) THEN AskRuns(df0, question, outcome)
        ELSE IF AnyIn(WicketKeywords, q) THEN AskWickets(df0, question, outcome)
        ELSE AskFallback(question, outcome)

\* -------------------------------------------------------- compare_players

CompareFacts(p1, s1, p2, s2) ==
    [template |-> "In the IPL: {}: {} runs, strike rate {}, {} matches / {}: {} runs, strike rate {}, {} matches",
     args |-> <<p1, s1.runs, s1.sr, s1.matches_played,
                p2, s2.runs, s2.sr, s2.matches_played>>]

compare_players(df0, p1, p2, outcome) ==
    LET st1 == player_stats(df0, p1)
        st2 == player_stats(df0, p2)
    IN  IF st1.exc /= "None" THEN Call(st1, <<"player_stats">>, <<>>)
        ELSE IF st2.exc /= "None" THEN Call(st2, <<"player_stats", "player_stats">>, <<>>)
        ELSE LET facts == CompareFacts(p1, st1.val, p2, st2.val)
                 ans   == llm_answer(facts, <<p1, p2>>, outcome)
                 log   == <<"player_stats", "player_stats", "llm_answer">>
             IN  IF ans.exc /= "None" THEN Call(ans, log, <<Sent(facts, outcome)>>)
                 ELSE Call(Ok([ans |-> ans.val,
                               fig |-> [kind |-> "bar", x |-> <<p1, p2>>,
                                        y |-> <<st1.val.runs, st2.val.runs>>]]),
                           log, <<Sent(facts, outcome)>>)

\* ---------------------------------------------------------- update_player

update_player(df0, p) ==
    LET st == player_stats(df0, p)
    IN  IF st.exc /= "None" THEN Call(st, <<"player_stats">>, <<>>)
        ELSE Call(Ok([card |-> st.val, fig |-> LineChart(player_trend(df0, p))]),
                  <<"player_stats", "player_trend">>, <<>>)

\* ----------------------------------------------------------------- inputs

Row(m, b, w, r, k) ==
    [match_id |-> m, batter |-> b, bowler |-> w, batsman_runs |-> r, is_wicket |-> k]

SeqsUpTo(S, n) == UNION {[1..k -> S] : k \in 0..n}

\* The match table of the fixtures: two matches whose seasons are in the
\* opposite order of their ids; a delivery of any other match misses the join.
FixtureMatches == << [id |-> 1, season |-> 2], [id |-> 2, season |-> 1] >>

MatchTables ==
    { <<>>,
      FixtureMatches,
      << [id |-> 1, season |-> 2], [id |-> 1, season |-> 1] >>,
      << [id |-> 1, season |-> NaN], [id |-> 2, season |-> 1] >> }

\* Delivery files for the callbacks: an empty file, a file with no wicket, and
\* a file where player 1 has two seasons and player 2 only a missed join.
FixtureDeliveries ==
    { <<>>,
      << Row(1, 1, 1, 1, 0) >>,
      << Row(1, 1, 1, 2, 1), Row(2, 1, 2, 1, 0), Row(3, 2, 2, 1, 1), Row(1, 1, 2, 0, 1) >> }

\* Delivery files for the rankings: up to MaxRows free rows, then k further
\* rows of k further names with one run (or one wicket) each.
PadRows(k, asBatter) ==
    [i \in 1..k |-> IF asBatter THEN Row(1, i + 1, 1, 1, 0) ELSE Row(1, 1, i + 1, 0, 1)]

RunRows == {Row(1, b, 1, r, 0) : b \in {NaN, 1, MaxPad + 2}, r \in 0..MaxRuns}

WicketRows == {Row(1, 1, w, 0, k) : w \in {NaN, 1, 2}, k \in {0, 1}}

RankingDeliveries ==
    {free \o PadRows(k, TRUE) : free \in SeqsUpTo(RunRows, MaxRows), k \in 0..MaxPad}
    \cup
    {free \o PadRows(k, FALSE) : free \in SeqsUpTo(WicketRows, MaxRows), k \in 0..MaxPad}

\* Delivery files for the per-player aggregations.
PlayerRows == {Row(m, b, 1, r, 0) : m \in 1..3, b \in {NaN, 1}, r \in 0..MaxRuns}

PlayerDeliveries == SeqsUpTo(PlayerRows, MaxRows)

Fragments ==
    { <<"r","u","n">>, <<"R","u">>, <<"N">>, <<"s">>, <<" ">>,
      <<"w","i","c","k","e","t">>, <<"W","i","c","K","E","T">>, <<"w","i","c","k">> }

RECURSIVE Questions(_)
Questions(n) ==
    IF n = 0 THEN {<<>>}
    ELSE LET shorter == Questions(n - 1)
         IN  shorter \cup {q \o f : q \in shorter, f \in Fragments}

FixtureQuestions ==
    { <<"R","u","n","s">>, <<"w","i","c","k","e","t">>, <<"h","i">> }

LLMOutcomes ==
    { [kind |-> "ok", content |-> <<" ", "V", "K", "\n">>],
      [kind |-> "api_error", content |-> <<>>],
      [kind |-> "no_choices", content |-> <<>>],
      [kind |-> "null_content", content |-> <<>>] }

FixtureOutcomes ==
    { [kind |-> "ok", content |-> <<" ", "V", "K", "\n">>],
      [kind |-> "api_error", content |-> <<>>] }

Sessions == 1..NumSessions

\* ------------------------------------------------------------------ state

Idle == [op |-> "idle", arg |-> <<>>, ret |-> Ok(<<>>), log |-> <<>>, sent |-> <<>>]

Done(op, arg, call) ==
    [op |-> op, arg |-> arg, ret |-> call.ret, log |-> call.log, sent |-> call.sent]

Load(m, d) ==
    /\ matches = m
    /\ deliveries = Merge(d, m)
    /\ players = PlayerList(Merge(d, m))
    /\ sess = [s \in Sessions |-> Idle]

\* --------------------------------------------------------------- actions

AskAI(s, question, outcome) ==
    /\ sess' = [sess EXCEPT ![s] = Done("ask_ai", question, ask_ai(deliveries, question, outcome))]
    /\ UNCHANGED <<matches, deliveries, players>>

ComparePlayers(s, p1, p2, outcome) ==
    /\ sess' = [sess EXCEPT ![s] =
                  Done("compare_players", <<p1, p2>>,
                       compare_players(deliveries, p1, p2, outcome))]
    /\ UNCHANGED <<matches, deliveries, players>>

UpdatePlayer(s, p) ==
    /\ sess' = [sess EXCEPT ![s] = Done("update_player", p, update_player(deliveries, p))]
    /\ UNCHANGED <<matches, deliveries, players>>

TopRunScorers(s) ==
    /\ sess' = [sess EXCEPT ![s] =
                  Done("top_run_scorers", <<>>,
                       Call(Ok(top_run_scorers(deliveries)), <<>>, <<>>))]
    /\ UNCHANGED <<matches, deliveries, players>>

TopWicketTakers(s) ==
    /\ sess' = [sess EXCEPT ![s] =
                  Done("top_wicket_takers", <<>>,
                       Call(Ok(top_wicket_takers(deliveries)), <<>>, <<>>))]
    /\ UNCHANGED <<matches, deliveries, players>>

\* The call as a bug would have it: the filter applied to the shared table.
PlayerStats_inplace(s, p) ==
    /\ sess' = [sess EXCEPT ![s] =
                  Done("player_stats", p, Call(player_stats(deliveries, p), <<>>, <<>>))]
    /\ deliveries' = SelectSeq(deliveries, LAMBDA r : p /= NaN /\ r.batter = p)
    /\ UNCHANGED <<matches, players>>

PlayerStats(s, p) ==
    /\ sess' = [sess EXCEPT ![s] =
                  Done("player_stats", p, Call(player_stats(deliveries, p), <<>>, <<>>))]
    /\ UNCHANGED <<matches, deliveries, players>>

PlayerTrend(s, p) ==
    /\ sess' = [sess EXCEPT ![s] =
                  Done("player_trend", p, Call(Ok(player_trend(deliveries, p)), <<>>, <<>>))]
    /\ UNCHANGED <<matches, deliveries, players>>

\* The values a dropdown can hand to a callback: a listed player, or nothing
\* selected (None, which like NaN equals no batter).
Choices == Range(players) \cup {NaN}

\* The names a caller can pass: the dropdown's, and a name no record holds.
Names == Choices \cup {MaxPad + 3}

\* ---------------------------------------------------------- specifications

\* Several UI sessions, every callback and aggregation, the fixture files.
Init == \E d \in FixtureDeliveries : Load(FixtureMatches, d)

Next ==
    \E s \in Sessions :
        \/ \E q \in FixtureQuestions, o \in FixtureOutcomes : AskAI(s, q, o)
        \/ \E p1 \in Choices, p2 \in Choices, o \in FixtureOutcomes : ComparePlayers(s, p1, p2, o)
        \/ \E p \in Choices : UpdatePlayer(s, p)
        \/ \E p \in Choices : PlayerStats(s, p)
        \/ \E p \in Choices : PlayerTrend(s, p)
        \/ TopRunScorers(s)
        \/ TopWicketTakers(s)

Spec == Init /\ [][Next]_vars

\* The first call of one fresh session (the tables never change, so a later
\* call sees what the first one sees): every callback and aggregation, every
\* question, every outcome of the remote call.
InitUI == Init

Fresh == sess[1] = Idle

NextUI ==
    \/ Fresh /\ \E q \in Questions(MaxFrags), o \in LLMOutcomes : AskAI(1, q, o)
    \/ Fresh /\ \E p1 \in Choices, p2 \in Choices, o \in LLMOutcomes : ComparePlayers(1, p1, p2, o)
    \/ Fresh /\ \E p \in Choices : UpdatePlayer(1, p)
    \/ Fresh /\ \E p \in Choices : PlayerStats(1, p)
    \/ Fresh /\ \E p \in Choices : PlayerTrend(1, p)
    \/ Fresh /\ TopRunScorers(1)
    \/ Fresh /\ TopWicketTakers(1)

SpecUI == InitUI /\ [][NextUI]_vars

\* The first call of one fresh session: the four aggregations over the ranking
\* and per-player files.
InitAgg ==
    \/ \E d \in RankingDeliveries : Load(FixtureMatches, d)
    \/ \E m \in MatchTables, d \in PlayerDeliveries : Load(m, d)

NextAgg ==
    \/ Fresh /\ TopRunScorers(1)
    \/ Fresh /\ TopWicketTakers(1)
    \/ Fresh /\ \E p \in Names : PlayerStats(1, p)
    \/ Fresh /\ \E p \in Names : PlayerTrend(1, p)

SpecAgg == InitAgg /\ [][NextAgg]_vars

\* ------------------------------------------------------------ properties

Returned(c) == c.ret.exc = "None"

Count(log, name) == Cardinality({i \in 1..Len(log) : log[i] = name})

RemoteFailed(c) == \E i \in 1..Len(c.sent) : c.sent[i].reply /= "ok"

Mentions(question, keywords) ==
    \E k \in Range(keywords) : Contains(Lower(question), k)

\* The records whose column holds the name (a missing value equals nothing).
RowsOf(col, name) ==
    {i \in 1..Len(deliveries) : name /= NaN /\ deliveries[i][col] = name}

RECURSIVE RunsOver(_)
RunsOver(I) ==
    IF I = {} THEN 0
    ELSE LET i == CHOOSE i \in I : TRUE
         IN  deliveries[i].batsman_runs + RunsOver(I \ {i})

Keys(out) == {out[i].key : i \in 1..Len(out)}

Descending(out) == \A i \in 1..Len(out) : \A j \in i..Len(out) : out[i].val >= out[j].val

\* C1: whenever the remote call made inside ask_ai fails, ask_ai returns (no
\* exception escapes) a non-empty error string as the answer and no chart.
C1_RemoteFailureIsAnAnswer ==
    \A s \in Sessions :
        (sess[s].op = "ask_ai" /\ RemoteFailed(sess[s]))
            => /\ Returned(sess[s])
               /\ sess[s].ret.val.ans /= EmptyString
               /\ sess[s].ret.val.fig = NoChart

\* C2: player_stats of a name that is the batter of no delivery record returns
\* (does not raise) runs 0, strike rate 0 and matchesPlayed 0.
C2_UnknownPlayerIsZero ==
    \A s \in Sessions :
        (/\ sess[s].op = "player_stats"
         /\ sess[s].arg /= NaN
         /\ RowsOf("batter", sess[s].arg) = {})
            => /\ Returned(sess[s])
               /\ sess[s].ret.val.runs = 0
               /\ sess[s].ret.val.sr = 0
               /\ sess[s].ret.val.matches_played = 0

\* C3: ask_ai dispatches on the lower-cased question by ordered first match:
\* a run keyword takes the run-scorer branch (and top_wicket_takers is never
\* computed, whatever else the question holds), otherwise a wicket keyword
\* takes the wicket-taker branch, otherwise the fallback branch sends the
\* fixed 'no numerical fact was matched' facts.
C3_OrderedFirstMatch ==
    \A s \in Sessions :
        sess[s].op = "ask_ai" =>
            IF Mentions(sess[s].arg, RunKeywords)
            THEN /\ sess[s].log[1] = "top_run_scorers"
                 /\ Count(sess[s].log, "top_wicket_takers") = 0
                 /\ \A i \in 1..Len(sess[s].sent) :
                        sess[s].sent[i].facts = RunFacts(top_run_scorers(deliveries)[1])
            ELSE IF Mentions(sess[s].arg, WicketKeywords)
            THEN /\ sess[s].log[1] = "top_wicket_takers"
                 /\ Count(sess[s].log, "top_run_scorers") = 0
                 /\ \A i \in 1..Len(sess[s].sent) :
                        sess[s].sent[i].facts = WicketFacts(top_wicket_takers(deliveries)[1])
            ELSE /\ sess[s].log = <<"llm_answer">>
                 /\ Len(sess[s].sent) = 1
                 /\ sess[s].sent[1].facts = FallbackFacts

HasUpper(question) == \E i \in 1..Len(question) : question[i] \in Range(UpperLetters)

\* A mixed-case question naming wickets first and runs second, answered from
\* the run scorers.
C3_Witness ==
    /\ sess[1].op = "ask_ai"
    /\ HasUpper(sess[1].arg)
    /\ Mentions(sess[1].arg, RunKeywords)
    /\ Mentions(sess[1].arg, WicketKeywords)
    /\ Head(Lower(sess[1].arg)) = "w"
    /\ Returned(sess[1])
    /\ sess[1].log = <<"top_run_scorers", "llm_answer">>

MatchedIntent(c) == c.log[1] \in {"top_run_scorers", "top_wicket_takers"}

\* C4 as stated: a returned ask_ai result is (answer, chart, the question
\* echoed) on a matched intent and (answer, no chart, empty string) on the
\* fallback.
C4_MatchedEchoesQuestion ==
    \A s \in Sessions :
        (sess[s].op = "ask_ai" /\ Returned(sess[s])) =>
            IF MatchedIntent(sess[s])
            THEN sess[s].ret.val.fig.kind = "bar" /\ sess[s].ret.val.q = sess[s].arg
            ELSE sess[s].ret.val.fig = NoChart /\ sess[s].ret.val.q = EmptyString

\* C4 amended: a returned ask_ai result is (stripped answer, bar chart of the
\* ranking, empty string) on a matched intent and (stripped answer, no chart,
\* empty string) on the fallback: the third element is empty on every branch.
C4_ThirdIsAlwaysEmpty ==
    \A s \in Sessions :
        (sess[s].op = "ask_ai" /\ Returned(sess[s])) =>
            /\ sess[s].ret.val.q = EmptyString
            /\ sess[s].ret.val.ans = Strip(sess[s].ret.val.ans)
            /\ IF MatchedIntent(sess[s])
               THEN /\ sess[s].ret.val.fig.kind = "bar"
                    /\ Len(sess[s].ret.val.fig.x) = Len(sess[s].ret.val.fig.y)
                    /\ Len(sess[s].ret.val.fig.x) \in 1..10
               ELSE sess[s].ret.val.fig = NoChart

\* A matched question that returned: chart present, third element empty.
C4_Witness ==
    /\ sess[1].op = "ask_ai"
    /\ Returned(sess[1])
    /\ MatchedIntent(sess[1])
    /\ sess[1].arg /= EmptyString
    /\ sess[1].ret.val.q = EmptyString
    /\ sess[1].ret.val.fig.kind = "bar"

\* C5: top_run_scorers returns at most 10 entries of distinct batters in
\* descending order of total; each total is the sum of batsman_runs over all
\* of that batter's records; no batter left out has a total strictly greater
\* than a returned one; the returned totals sum to at most the table's runs.
C5_TopRunScorers ==
    \A s \in Sessions :
        sess[s].op = "top_run_scorers" =>
            LET out == sess[s].ret.val
            IN  /\ Len(out) <= 10
                /\ \A i \in 1..Len(out) : \A j \in 1..Len(out) :
                        out[i].key = out[j].key => i = j
                /\ Descending(out)
                /\ \A i \in 1..Len(out) :
                        /\ out[i].key /= NaN
                        /\ out[i].val = RunsOver(RowsOf("batter", out[i].key))
                /\ \A k \in 1..Len(deliveries) :
                        LET b == deliveries[k].batter
                        IN  (b /= NaN /\ b \notin Keys(out)) =>
                                \A i \in 1..Len(out) :
                                    RunsOver(RowsOf("batter", b)) <= out[i].val
                /\ SumSeq(Column(out, "val")) <= RunsOver(1..Len(deliveries))

\* More than 10 batters: 10 returned, unequal totals, a batter who sorts
\* before the leader left out, and runs in the table that no entry counts.
C5_Witness ==
    /\ sess[1].op = "top_run_scorers"
    /\ Len(sess[1].ret.val) = 10
    /\ sess[1].ret.val[1].val > sess[1].ret.val[10].val
    /\ \E k \in 1..Len(deliveries) :
            /\ deliveries[k].batter /= NaN
            /\ deliveries[k].batter \notin Keys(sess[1].ret.val)
            /\ deliveries[k].batter < sess[1].ret.val[1].key
    /\ SumSeq(Column(sess[1].ret.val, "val")) < RunsOver(1..Len(deliveries))

\* C6: every (bowler, count) entry of top_wicket_takers has count equal to the
\* number of that bowler's records with is_wicket true, so a record with
\* is_wicket false contributes to no count and a bowler with no wicket record
\* never appears; the result has at most 10 entries in descending order.
C6_TopWicketTakers ==
    \A s \in Sessions :
        sess[s].op = "top_wicket_takers" =>
            LET out == sess[s].ret.val
            IN  /\ Len(out) <= 10
                /\ Descending(out)
                /\ \A i \in 1..Len(out) :
                        /\ out[i].val =
                              Cardinality({k \in RowsOf("bowler", out[i].key) :
                                              deliveries[k].is_wicket = 1})
                        /\ out[i].val >= 1

\* 10 returned; a returned bowler has a non-wicket record, and a bowler whose
\* records are all non-wicket is absent.
C6_Witness ==
    /\ sess[1].op = "top_wicket_takers"
    /\ \E k \in 1..Len(deliveries) :
            /\ deliveries[k].is_wicket = 0
            /\ deliveries[k].bowler \in Keys(sess[1].ret.val)
    /\ \E k \in 1..Len(deliveries) :
            /\ deliveries[k].is_wicket = 0
            /\ deliveries[k].bowler /= NaN
            /\ deliveries[k].bowler \notin Keys(sess[1].ret.val)
    /\ Len(sess[1].ret.val) = 10

\* C7: player_trend(player) has exactly one (season, total) entry per distinct
\* non-null season among the player's records, total being the sum of
\* batsman_runs of the player's records of that season, in strictly ascending
\* season order; a record whose season is null is in no entry.
C7_PlayerTrend ==
    \A s \in Sessions :
        sess[s].op = "player_trend" =>
            LET out  == sess[s].ret.val
                mine == RowsOf("batter", sess[s].arg)
            IN  /\ Keys(out) = {deliveries[k].season : k \in mine} \ {NaN}
                /\ \A i \in 1..Len(out) : \A j \in 1..Len(out) :
                        i < j => out[i].key < out[j].key
                /\ \A i \in 1..Len(out) :
                        out[i].val =
                            RunsOver({k \in mine : deliveries[k].season = out[i].key})

\* Two seasons met in descending order in the table, and a scoring record of
\* the player whose season is null.
C7_Witness ==
    /\ sess[1].op = "player_trend"
    /\ Len(sess[1].ret.val) = 2
    /\ sess[1].ret.val[1].val > 0
    /\ \E k \in 1..Len(deliveries) :
            /\ deliveries[k].batter = sess[1].arg
            /\ deliveries[k].season = NaN
            /\ deliveries[k].batsman_runs > 0
    /\ \E k \in 1..Len(deliveries) : \E l \in 1..Len(deliveries) :
            /\ k < l
            /\ deliveries[k].batter = sess[1].arg
            /\ deliveries[l].batter = sess[1].arg
            /\ deliveries[k].season /= NaN
            /\ deliveries[l].season /= NaN
            /\ deliveries[k].season > deliveries[l].season

\* C8: for every listed player A (whose remote call succeeds),
\* compare_players(A, A) returns, with identical runs, strike rate and matches
\* in both slots of the facts and a chart of two equal bars both labelled A.
C8_SelfComparison ==
    \A s \in Sessions :
        (/\ sess[s].op = "compare_players"
         /\ sess[s].arg[1] = sess[s].arg[2]
         /\ sess[s].arg[1] \in Range(players)
         /\ ~RemoteFailed(sess[s]))
            => /\ Returned(sess[s])
               /\ Len(sess[s].sent) = 1
               /\ SubSeq(sess[s].sent[1].facts.args, 1, 4)
                    = SubSeq(sess[s].sent[1].facts.args, 5, 8)
               /\ sess[s].ret.val.fig.x = <<sess[s].arg[1], sess[s].arg[1]>>
               /\ sess[s].ret.val.fig.y[1] = sess[s].ret.val.fig.y[2]

Remote == {"ask_ai", "compare_players"}

Local == {"player_stats", "player_trend", "top_run_scorers", "top_wicket_takers"}

\* C9: an ask_ai or compare_players call that returns has made exactly one
\* call to the remote model, as its last step, after its aggregations; one
\* that raises has made at most one (a failed call is not retried); the four
\* aggregations make none.
C9_OneRemoteCall ==
    \A s \in Sessions :
        /\ (sess[s].op \in Remote /\ Returned(sess[s])) =>
                /\ Count(sess[s].log, "llm_answer") = 1
                /\ sess[s].log[Len(sess[s].log)] = "llm_answer"
                /\ Len(sess[s].sent) = 1
        /\ sess[s].op \in Remote =>
                /\ Count(sess[s].log, "llm_answer") <= 1
                /\ Len(sess[s].sent) = Count(sess[s].log, "llm_answer")
        /\ sess[s].op \in Local =>
                /\ Count(sess[s].log, "llm_answer") = 0
                /\ sess[s].sent = <<>>

\* A comparison whose one remote call failed after both aggregations.
C9_Witness ==
    /\ sess[1].op = "compare_players"
    /\ RemoteFailed(sess[1])
    /\ sess[1].log = <<"player_stats", "player_stats", "llm_answer">>
    /\ Len(sess[1].sent) = 1

SameOutcome(a, b) ==
    /\ a.exc = b.exc
    /\ a.exc = "None" => a.val = b.val

Repeatable ==
    \A s \in Sessions : \A t \in Sessions :
        (/\ sess[s].op \in Local \cup {"update_player"}
         /\ sess[s].op = sess[t].op
         /\ sess[s].arg = sess[t].arg)
            => SameOutcome(sess[s].ret, sess[t].ret)

\* C10: once loaded, the match table, the season-enriched delivery table and
\* the player list are left unchanged by every call, failed or not, of every
\* session, and two calls of one aggregation with one argument agree.
C10_TablesAreReadOnly ==
    [][/\ matches' = matches
       /\ deliveries' = deliveries
       /\ players' = players
       /\ Repeatable']_vars

\* Two sessions holding the same aggregation of the same player.
C10_Witness ==
    /\ sess[1].op = "player_stats"
    /\ sess[2].op = "player_stats"
    /\ sess[1].arg = sess[2].arg
    /\ Returned(sess[1])
    /\ Returned(sess[2])
    /\ sess[1].ret.val.runs > 0

====
